---------------------------- MODULE Spec2Model ----------------------------
(***************************************************************************)
(* State-reconciliation engine of orca_nw_lib: discovery of VLANs,         *)
(* spanning-tree ports and port-groups from network devices into a graph  *)
(* store, and the configuration operations that mutate a device and then  *)
(* rediscover it.                                                          *)
(*                                                                         *)
(* Optional values (Python None) are encoded as sequences: <<>> is None   *)
(* and <<x>> is the value x.                                               *)
(***************************************************************************)
EXTENDS Integers, Sequences, FiniteSets, TLC

VARIABLES
    vlans,        \* store: the Vlan nodes, each attached to one device
    medges,       \* store: MEMBER_IF relationships Vlan -> Interface
    nid,          \* store: number of Vlan nodes created so far per (device, name)
    stp_ports,    \* store: STP_PORT natural keys per device
    port_groups,  \* store: PortGroup natural keys per device
    pc,           \* position of the running operation
    op,           \* the running top-level operation [name, dev]
    queue,        \* devices still to be visited by the discovery loop
    cur,          \* device of the current loop iteration
    raw,          \* what the device reports during the current iteration
    ipd,          \* per-VLAN IP details fetched so far (aligned with VLAN_LIST)
    snap,         \* the mapped snapshot: the dict Vlan -> members, in insertion order
    idx,          \* index of the snapshot entry being reconciled
    midx,         \* index of the membership entry being reconciled
    pending,      \* exception raised by the device mutation, held while finally runs
    exc,          \* exception that leaves the operation
    trace,        \* calls and log records of the running operation, in order
    store0,       \* vlans/medges as they were when the current iteration started
    runs,         \* number of per-device VLAN discovery iterations started
    ksnap,        \* the mapped STP-port / port-group snapshot: its natural keys
    last,         \* history: the last VLAN iteration whose snapshot was mapped
    repeated,     \* history: that iteration saw the same device and report as the one before
    result,       \* the value a read operation returns
    th,           \* concurrent reconciliations: the locals of each thread
    calls,        \* concurrent reconciliations: the number of runs started
    lastdone,     \* history: the concurrent run that ended last
    mapin,        \* a domain mapper run on its own: the raw data it is given
    mapout        \* a domain mapper run on its own: what it returns

vars == <<vlans, medges, nid, stp_ports, port_groups, pc, op, queue, cur, raw, ipd,
          snap, idx, midx, pending, exc, trace, store0, runs, ksnap, last, repeated,
          result, th, calls, lastdone, mapin, mapout>>

storeVars == <<vlans, medges, nid, stp_ports, port_groups>>
engineVars == <<storeVars, pc, op, queue, cur, raw, ipd, snap, idx, midx, pending, exc,
                trace, store0, runs, ksnap, last, repeated, result>>
threadVars == <<th, calls, lastdone>>
mapperVars == <<mapin, mapout>>

-----------------------------------------------------------------------------
(* Bounds and input domains *)

MaxRuns == 2
\* The largest interface number of a port-group range
MaxEth == 11
\* The number of reconciliation runs the threads start
MaxCalls == 3

None == <<>>
Some(x) == <<x>>

\* get_device_db_obj(): the devices known to the store, in the order returned
DeviceOrder == <<"10.0.0.1", "10.0.0.2">>
Devices == {DeviceOrder[k] : k \in 1..Len(DeviceOrder)}

VlanNames == {"Vlan10", "Vlan20"}
\* Interface entities that exist in the store for every device
Interfaces == {"Ethernet0"}
\* An interface name a device may report that has no Interface entity
UnknownIf == "Ethernet9"

NoDev == "none"

RECURSIVE SeqToSet(_)
SeqToSet(s) == IF s = <<>> THEN {} ELSE {Head(s)} \cup SeqToSet(Tail(s))

VlanIdOf(n) == IF n = "Vlan10" THEN 10 ELSE 20

\* What a device may report, by configuration version v
ListEntry(n) == [name |-> n, vlanid |-> Some(VlanIdOf(n)), autostate |-> None]
TableRow(n, v) ==
    [name |-> n,
     mtu |-> Some(IF v = 1 THEN 9100 ELSE 1500),
     admin_status |-> Some(IF v = 1 THEN "up" ELSE "down"),
     oper_status |-> Some(IF v = 1 THEN "up" ELSE "down"),
     autostate |-> IF v = 1 THEN Some("enable") ELSE None]
IpDetails(v) ==
    IF v = 1
    THEN [addresses |-> << [ip |-> Some("10.1.1.1"), pfx |-> Some(24)] >>,
          sag |-> <<>>]
    ELSE IF v = 2
    THEN [addresses |-> << [ip |-> None, pfx |-> Some(32)],
                           [ip |-> Some("10.2.2.2"), pfx |-> Some(16)],
                           [ip |-> Some("10.3.3.3"), pfx |-> Some(8)] >>,
          sag |-> << "10.9.9.9/24" >>]
    ELSE IF v = 3
    THEN [addresses |-> << [ip |-> Some("10.4.4.4"), pfx |-> None],
                           [ip |-> None, pfx |-> None] >>,
          sag |-> <<>>]
    ELSE IF v = 4
    THEN [addresses |-> <<>>, sag |-> <<>>]
    ELSE [addresses |-> << [ip |-> Some("10.5.5.5"), pfx |-> Some(0)],
                           [ip |-> Some("10.6.6.6"), pfx |-> Some(24)] >>,
          sag |-> <<>>]
Mem(n, i, t) == [name |-> n, ifname |-> i, tagging_mode |-> t]

VlanLists == { <<>>, <<"Vlan10">>, <<"Vlan20">>, <<"Vlan10", "Vlan20">> }
\* Configurations of a device: the version of its scalar values and its member table
\* (rows of VLANs that are not in VLAN_LIST included)
Profiles ==
    { [v |-> 1,
       m |-> << Mem("Vlan10", "Ethernet0", "tagged"),
                Mem("Vlan20", "Ethernet0", "untagged") >>],
      [v |-> 2,
       m |-> <<>>],
      [v |-> 2,
       m |-> << Mem("Vlan10", "Ethernet0", "untagged"), Mem("Vlan10", UnknownIf, "tagged"),
                Mem("Vlan20", "Ethernet0", "tagged") >>] }

MkReport(l, v, m) ==
    [vlan_list |-> [k \in 1..Len(l) |-> ListEntry(l[k])],
     table_list |-> [k \in 1..Len(l) |-> TableRow(l[k], v)],
     member_list |-> m,
     ip |-> [n \in VlanNames |-> IpDetails(v)]]

\* The report of the end-to-end scenario: Vlan10 with vlanid 10, a table row with
\* mtu 9100 and admin_status UP, one tagged member Ethernet0, no IP configuration
ScenarioReport ==
    [vlan_list |-> << ListEntry("Vlan10") >>,
     table_list |-> << [name |-> "Vlan10", mtu |-> Some(9100), admin_status |-> Some("UP"),
                        oper_status |-> None, autostate |-> None] >>,
     member_list |-> << Mem("Vlan10", "Ethernet0", "tagged") >>,
     ip |-> [n \in VlanNames |-> [addresses |-> <<>>, sag |-> <<>>]]]

DeviceReports ==
    { MkReport(l, c.v, c.m) : l \in VlanLists, c \in Profiles } \cup {ScenarioReport}

NoReport == [vlan_list |-> <<>>, table_list |-> <<>>, member_list |-> <<>>,
             ip |-> [n \in VlanNames |-> [addresses |-> <<>>, sag |-> <<>>]]]


-----------------------------------------------------------------------------
(* Domain mapper: vlan.py _create_vlan_db_obj *)

\* vlan.py:56: the truth value of config.get("ip", "") and of
\* config.get("prefix-length", ""): a missing key gives "", and "" and 0 are false
IpTruthy(ip) == ip # None /\ ip[1] # ""
PfxTruthy(pfx) == pfx # None /\ pfx[1] # 0

\* vlan.py:54-58: the first address entry whose ip and prefix-length are both
\* true, as "ip/pfx"
RECURSIVE FirstIpv4(_)
FirstIpv4(addresses) ==
    IF addresses = <<>> THEN None
    ELSE LET a == Head(addresses)
         IN  IF IpTruthy(a.ip) /\ PfxTruthy(a.pfx)
             THEN Some(<<a.ip[1], "/", a.pfx[1]>>)
             ELSE FirstIpv4(Tail(addresses))

\* common.VlanAutoState.disable, as str()
AutoStateDefault == "disable"

\* vlan.py:60-68: the Vlan object built from one VLAN_LIST entry and its IP details
NewVlanObj(e, ipdet) ==
    [vlanid |-> e.vlanid,
     name |-> e.name,
     ip_address |-> FirstIpv4(ipdet.addresses),
     sag_ip_address |-> IF ipdet.sag # <<>> THEN Some(ipdet.sag[1]) ELSE None,
     autostate |-> IF e.autostate # None THEN e.autostate ELSE Some(AutoStateDefault),
     mtu |-> None,
     admin_status |-> None,
     oper_status |-> None]

\* Variant: the row is applied without comparing names
ApplyTableRowToAll(vs, row) ==
    [k \in 1..Len(vs) |->
        [vs[k] EXCEPT !.mtu = row.mtu,
                      !.admin_status = row.admin_status,
                      !.oper_status = row.oper_status,
                      !.autostate = row.autostate]]

\* vlan.py:71-76: one VLAN_TABLE_LIST row applied to every Vlan object of that name
ApplyTableRow(vs, row) ==
    [k \in 1..Len(vs) |->
        IF vs[k].name = row.name
        THEN [vs[k] EXCEPT !.mtu = row.mtu,
                           !.admin_status = row.admin_status,
                           !.oper_status = row.oper_status,
                           !.autostate = row.autostate]
        ELSE vs[k]]

\* vlan.py:70-76
RECURSIVE JoinTable(_, _)
JoinTable(vs, rows) ==
    IF rows = <<>> THEN vs ELSE JoinTable(ApplyTableRow(vs, Head(rows)), Tail(rows))

\* graph_db_models.Vlan __eq__/__hash__: two Vlan objects are the same dict key
\* when they carry the same natural key (the VLAN name)
VlanKeyEq(a, b) == a.name = b.name

\* vlan.py:81-83
MembersOf(v, member_list) == SelectSeq(member_list, LAMBDA item : v.name = item.name)

\* vlan.py:84: dict assignment; an equal key keeps its first key object and
\* position and takes the new value
DictPut(d, v, members) ==
    IF \E k \in 1..Len(d) : VlanKeyEq(d[k].vlan, v)
    THEN [k \in 1..Len(d) |->
            IF VlanKeyEq(d[k].vlan, v) THEN [vlan |-> d[k].vlan, members |-> members]
            ELSE d[k]]
    ELSE Append(d, [vlan |-> v, members |-> members])

\* vlan.py:78-84
RECURSIVE BuildDict(_, _, _)
BuildDict(d, vs, member_list) ==
    IF vs = <<>> THEN d
    ELSE BuildDict(DictPut(d, Head(vs), MembersOf(Head(vs), member_list)),
                   Tail(vs), member_list)

\* vlan.py:25-86, given the table reply r and the per-VLAN IP replies ips
create_vlan_db_obj(r, ips) ==
    BuildDict(<<>>,
              JoinTable([k \in 1..Len(r.vlan_list) |-> NewVlanObj(r.vlan_list[k], ips[k])],
                        r.table_list),
              r.member_list)

-----------------------------------------------------------------------------
(* Domain mapper: portgroup.py _create_port_group_graph_objects                 *)
(*                                                                         *)
(* A string is a sequence of tokens: the word "Ethernet", other words, and  *)
(* the decimal digits "0".."9". An openconfig identity string is the        *)
(* sequence of its parts between colons.                                    *)

DigitChars == << "0", "1", "2", "3", "4", "5", "6", "7", "8", "9" >>
IsDigit(c) == \E i \in 1..Len(DigitChars) : DigitChars[i] = c
DigitVal(c) == (CHOOSE i \in 1..Len(DigitChars) : DigitChars[i] = c) - 1

\* str.replace("Ethernet", ""): every occurrence is removed
StripEthernet(name) == SelectSeq(name, LAMBDA c : c # "Ethernet")

\* int(s) accepts a non-empty string of decimal digits
IsNumeral(digits) == digits # <<>> /\ \A i \in 1..Len(digits) : IsDigit(digits[i])

\* int(s): the value of a decimal numeral
RECURSIVE ParseInt(_)
ParseInt(digits) ==
    IF digits = <<>> THEN 0
    ELSE 10 * ParseInt(SubSeq(digits, 1, Len(digits) - 1)) + DigitVal(digits[Len(digits)])

\* f"{eth_num}": the decimal numeral of a natural number, without leading zeros
RECURSIVE FormatInt(_)
FormatInt(n) ==
    IF n < 10 THEN << DigitChars[n + 1] >>
    ELSE Append(FormatInt(n \div 10), DigitChars[(n % 10) + 1])

\* range(lo, hi): lo, lo+1, ..., hi-1
PyRange(lo, hi) == [i \in 1..(IF hi > lo THEN hi - lo ELSE 0) |-> lo + i - 1]

\* Variant: the end of the range is not included
ExpandMembersEndExcluded(member_if_start, member_if_end) ==
    LET nums == PyRange(ParseInt(StripEthernet(member_if_start)),
                        ParseInt(StripEthernet(member_if_end)))
    IN  [k \in 1..Len(nums) |-> << "Ethernet" >> \o FormatInt(nums[k])]

\* portgroup.py:48-53
ExpandMembers(member_if_start, member_if_end) ==
    LET nums == PyRange(ParseInt(StripEthernet(member_if_start)),
                        ParseInt(StripEthernet(member_if_end)) + 1)
    IN  [k \in 1..Len(nums) |-> << "Ethernet" >> \o FormatInt(nums[k])]

\* common.py:40-41: oc_str.split(":")[1]
getSpeedStrFromOCStr(oc_str) == oc_str[2]

\* graph_db_models.PortGroup __eq__/__hash__: two PortGroup objects are the same
\* dict key when they carry the same port_group_id
PortGroupKeyEq(a, b) == a.port_group_id = b.port_group_id

\* portgroup.py:36-62 for one entry of the device's port-group list
NewPortGroupEntry(state) ==
    [pg |-> [port_group_id |-> state.id,
             speed |-> getSpeedStrFromOCStr(state.speed),
             valid_speeds |-> [k \in 1..Len(state.valid_speeds) |->
                                 getSpeedStrFromOCStr(state.valid_speeds[k])],
             default_speed |-> getSpeedStrFromOCStr(state.default_speed)],
     mem_infcs |-> ExpandMembers(state.member_if_start, state.member_if_end)]

\* portgroup.py:55-62: dict assignment, an equal key keeps its place and takes the
\* new value
PortGroupPut(d, e) ==
    IF \E k \in 1..Len(d) : PortGroupKeyEq(d[k].pg, e.pg)
    THEN [k \in 1..Len(d) |->
            IF PortGroupKeyEq(d[k].pg, e.pg) THEN [pg |-> d[k].pg, mem_infcs |-> e.mem_infcs]
            ELSE d[k]]
    ELSE Append(d, e)

RECURSIVE PortGroupDict(_, _)
PortGroupDict(d, states) ==
    IF states = <<>> THEN d
    ELSE PortGroupDict(PortGroupPut(d, NewPortGroupEntry(Head(states))), Tail(states))

\* portgroup.py:49-52: int() raises ValueError for what is no numeral
RangeWellFormed(state) ==
    /\ IsNumeral(StripEthernet(state.member_if_start))
    /\ IsNumeral(StripEthernet(state.member_if_end))

\* portgroup.py:21-64, given the device's reply: the dict PortGroup -> member
\* interface names, or the ValueError of the first entry whose range is no numeral
create_port_group_graph_objects(port_groups_json) ==
    IF \A k \in 1..Len(port_groups_json) : RangeWellFormed(port_groups_json[k])
    THEN [ret |-> Some(PortGroupDict(<<>>, port_groups_json)), exc |-> None]
    ELSE [ret |-> None, exc |-> Some([type |-> "ValueError", origin |-> "map"])]

-----------------------------------------------------------------------------
(* Store operations: vlan_db.py *)

VlansOf(vs, d) == {n \in vs : n.dev = d}
EdgesOf(vs, es, d) == {e \in es : \E n \in VlansOf(vs, d) : n.id = e.vid}
NamesOf(vs, d) == {n.p.name : n \in VlansOf(vs, d)}
SnapNames(sn) == {sn[k].vlan.name : k \in 1..Len(sn)}

\* Variant: the lookup filters on a key no stored node carries and finds nothing
LookupMisses(vs, d, name) == {}

\* vlan_db.py:25-41 with a name: device.vlans.get_or_none(name=vlan_name), as the
\* set of matching nodes
get_vlan_obj_from_db(vs, d, name) == {n \in VlansOf(vs, d) : n.p.name = name}

\* vlan_db.py:65-80
copy_vlan_obj_prop(target, source) ==
    [target EXCEPT !.vlanid = source.vlanid,
                   !.name = source.name,
                   !.mtu = source.mtu,
                   !.admin_status = source.admin_status,
                   !.oper_status = source.oper_status]

\* Variant: the existing node is deleted and a new node is saved in its place
RecreateNode(vs, v, vlan) ==
    {n \in vs : n.id # v.id} \cup {[id |-> <<v.dev, vlan.name, 0>>, dev |-> v.dev, p |-> vlan]}

\* vlan_db.py:96-100: update the existing node v in place and save it
UpdateExisting(vs, v, vlan) ==
    {n \in vs : n.id # v.id} \cup {[v EXCEPT !.p = copy_vlan_obj_prop(v.p, vlan)]}

\* vlan_db.py:101-103: save the new node and attach it to the device
SaveNew(vs, d, vlan, k) ==
    vs \cup {[id |-> <<d, vlan.name, k>>, dev |-> d, p |-> vlan]}

\* interface_db.getInterfaceOfDeviceFromDB: the Interface entity, or None
getInterfaceOfDeviceFromDB(d, ifname) ==
    IF ifname \in Interfaces THEN Some(ifname) ELSE None

\* Variant: the relationship is merged but its tagging_mode is never saved
ConnectMemberModeLost(es, vid, ifname, mode) ==
    {e \in es : ~(e.vid = vid /\ e.ifname = ifname)}
        \cup {[vid |-> vid, ifname |-> ifname, tagging_mode |-> None]}

\* vlan_db.py:108,115-116: memberInterfaces.connect(intf) merges the relationship,
\* then tagging_mode is set on it and saved
ConnectMember(es, vid, ifname, mode) ==
    {e \in es : ~(e.vid = vid /\ e.ifname = ifname)}
        \cup {[vid |-> vid, ifname |-> ifname, tagging_mode |-> mode]}

\* vlan_db.py:120: vlan_in_db not in vlans_obj_vs_mem
InSnapshot(n, sn) == \E k \in 1..Len(sn) : VlanKeyEq(sn[k].vlan, n.p)

\* Variant: the pruning loop is missing
StaleVlansNone(vs, d, sn) == {}

\* Variant: the pruning loop enumerates the VLANs of every device
StaleVlansAnyDevice(vs, d, sn) == {n \in vs : ~InSnapshot(n, sn)}

\* vlan_db.py:119-121: the nodes of the device that the pruning loop deletes
StaleVlans(vs, d, sn) == {n \in VlansOf(vs, d) : ~InSnapshot(n, sn)}

\* vlan_db.py:8-22: vlan.delete() removes the node
DeleteVlans(vs, gone) == vs \ gone

\* Variant: the node is removed without its relationships
DeleteEdgesKept(es, gone) == es

\* Variant: a deletion detaches the relationships of every node
DeleteEdgesAll(es, gone) == IF gone = {} THEN es ELSE {}

\* vlan_db.py:22: vlan.delete() detaches the node's relationships
DeleteEdges(es, gone) == {e \in es : ~(\E n \in gone : n.id = e.vid)}


-----------------------------------------------------------------------------
(* Operations *)

\* Device reports of the other resource kinds: the natural keys present
StpIfNames == {"Ethernet0"}
PortGroupIds == {"1"}

VlanMutations == {"del_vlan", "config_vlan", "add_vlan_mem", "del_vlan_mem"}
StpMutations == {"add_stp_port_members", "delete_stp_port_member"}
Discoveries == {"discover_vlan", "discover_stp_port", "discover_port_groups"}

\* Exceptions a device call may raise
TransportErrors == {"_InactiveRpcError", "Exception"}
\* Those drawn for a call of the operation: every handler but set_port_group_speed's
\* treats all of them alike
ErrorsOf(name) ==
    IF name = "set_port_group_speed" THEN TransportErrors ELSE {"_InactiveRpcError"}

\* An exception object: its class and the call that raised it
Exc(t, o) == [type |-> t, origin |-> o]

NoOp == [name |-> "none", dev |-> NoDev]
Ev(e, d) == [ev |-> e, dev |-> d]
StoreNow == [vlans |-> vlans, medges |-> medges, stp |-> stp_ports, pg |-> port_groups]
NoStore == [vlans |-> {}, medges |-> {},
            stp |-> [d \in Devices |-> {}], pg |-> [d \in Devices |-> {}]]
NoLast == [dev |-> NoDev, raw |-> NoReport, vlans |-> {}, medges |-> {}]

\* The threads that may reconcile VLANs concurrently, and a thread that is not running
Threads == {"t1", "t2"}
IdleThread == [pc |-> "idle", dev |-> NoDev, snap |-> <<>>, idx |-> 0, midx |-> 0,
               found |-> {}, exc |-> None]
NoRun == [t |-> "none", names |-> {}, ok |-> FALSE]

\* Nothing is stored and no operation is running
Quiescent ==
    /\ vlans = {}
    /\ medges = {}
    /\ nid = [d \in Devices |-> [n \in VlanNames |-> 0]]
    /\ stp_ports = [d \in Devices |-> {}]
    /\ port_groups = [d \in Devices |-> {}]
    /\ pc = "idle"
    /\ op = NoOp
    /\ queue = <<>>
    /\ cur = NoDev
    /\ raw = NoReport
    /\ ipd = <<>>
    /\ snap = <<>>
    /\ idx = 0
    /\ midx = 0
    /\ pending = None
    /\ exc = None
    /\ trace = <<>>
    /\ store0 = NoStore
    /\ runs = 0
    /\ ksnap = {}
    /\ last = NoLast
    /\ repeated = FALSE
    /\ result = None
    /\ th = [t \in Threads |-> IdleThread]
    /\ calls = 0
    /\ lastdone = NoRun

Init ==
    /\ Quiescent
    /\ mapin = None
    /\ mapout = None

\* devices = [get_device_db_obj(device_ip)] if device_ip else get_device_db_obj()
DeviceList(d) == IF d = NoDev THEN DeviceOrder ELSE <<d>>

\* The resource kind an operation discovers
KindOf(name) ==
    CASE name \in VlanMutations \cup {"discover_vlan"} -> "vlan"
      [] name \in StpMutations \cup {"discover_stp_port"} -> "stp"
      [] OTHER -> "pg"

\* Variant: del_vlan_mem has lost its finally clause
FinallyCallMissing(name) ==
    CASE name \in {"del_vlan", "config_vlan", "add_vlan_mem"} -> "discover_vlan"
      [] name = "set_port_group_speed" -> "discover_port_groups"
      [] OTHER -> "none"

\* The discovery an operation calls in its finally clause, "none" when it has none
FinallyCall(name) ==
    CASE name \in VlanMutations -> "discover_vlan"
      [] name = "set_port_group_speed" -> "discover_port_groups"
      [] OTHER -> "none"

\* Whether the operation's except clause catches (logs and re-raises) exception e
Catches(name, e) ==
    IF name = "set_port_group_speed" THEN e = "_InactiveRpcError" ELSE TRUE

\* A discovery entry point called directly
Discover(name, d) ==
    /\ pc = "idle"
    /\ runs + Len(DeviceList(d)) <= MaxRuns
    /\ op' = [name |-> name, dev |-> d]
    /\ trace' = << Ev(name, d) >>
    /\ queue' = DeviceList(d)
    /\ pc' = "loop"
    /\ UNCHANGED <<result, threadVars, mapperVars>>
    /\ UNCHANGED <<storeVars, cur, raw, ipd, snap, idx, midx, pending, exc, store0,
                   runs, ksnap, last, repeated>>

discover_vlan(d) == Discover("discover_vlan", d)
discover_stp_port(d) == Discover("discover_stp_port", d)
discover_port_groups(d) == Discover("discover_port_groups", d)

\* A configuration operation is entered: its try block is about to run
Configure(name, d) ==
    /\ pc = "idle"
    /\ FinallyCall(name) # "none" => runs + 1 <= MaxRuns
    /\ op' = [name |-> name, dev |-> d]
    /\ trace' = <<>>
    /\ pc' = "mutate"
    /\ UNCHANGED <<result, threadVars, mapperVars>>
    /\ UNCHANGED <<storeVars, queue, cur, raw, ipd, snap, idx, midx, pending, exc,
                   store0, runs, ksnap, last, repeated>>

del_vlan(d) == Configure("del_vlan", d)
config_vlan(d) == Configure("config_vlan", d)
add_vlan_mem(d) == Configure("add_vlan_mem", d)
del_vlan_mem(d) == Configure("del_vlan_mem", d)
set_port_group_speed(d) == Configure("set_port_group_speed", d)
add_stp_port_members(d) == Configure("add_stp_port_members", d)
delete_stp_port_member(d) == Configure("delete_stp_port_member", d)

\* What follows the try/except of a configuration operation: the finally clause
\* calls discovery, or, without one, the operation ends
AfterMutation(name, d, tr, pend) ==
    IF FinallyCall(name) # "none"
    THEN /\ trace' = Append(tr, Ev(FinallyCall(name), d))
         /\ queue' = << d >>
         /\ pc' = "loop"
         /\ exc' = None
    ELSE /\ trace' = tr
         /\ queue' = <<>>
         /\ pc' = "done"
         /\ exc' = pend

\* The device mutation call returns
MutationSucceeds ==
    /\ pc = "mutate"
    /\ pending' = None
    /\ AfterMutation(op.name, op.dev, Append(trace, Ev("mutate", op.dev)), None)
    /\ UNCHANGED <<result, threadVars, mapperVars>>
    /\ UNCHANGED <<storeVars, op, cur, raw, ipd, snap, idx, midx, store0, runs, ksnap,
                   last, repeated>>

\* The device mutation call raises e: the except clause, when it catches e, logs and
\* re-raises
MutationFails(e) ==
    /\ pc = "mutate"
    /\ e \in ErrorsOf(op.name)
    /\ pending' = Some(Exc(e, "mutation"))
    /\ LET called == Append(trace, Ev("mutate", op.dev))
           logged == IF Catches(op.name, e) THEN Append(called, Ev("log", op.dev))
                     ELSE called
       IN  AfterMutation(op.name, op.dev, logged, Some(Exc(e, "mutation")))
    /\ UNCHANGED <<result, threadVars, mapperVars>>
    /\ UNCHANGED <<storeVars, op, cur, raw, ipd, snap, idx, midx, store0, runs, ksnap,
                   last, repeated>>


-----------------------------------------------------------------------------
(* Read operations: get_vlan, get_vlan_members, get_port_groups,                *)
(* get_port_group_members, get_stp_port_members                                 *)

Reads == {"get_vlan", "get_vlan_members", "get_port_groups", "get_port_group_members",
          "get_stp_port_members"}

\* What a call yields: a returned value (None is Python's None) or an exception
Returned(v) == [ret |-> v, exc |-> None]
Raising(t) == [ret |-> None, exc |-> Some(Exc(t, "read"))]

\* vlan.py:89-94 with vlan_db.py:44-62: the properties of a VLAN node and the names
\* of its member interfaces
getJson(vs, es, v) ==
    [p |-> v.p, members |-> {e.ifname : e \in {f \in es : f.vid = v.id}}]

\* vlan.py:97-115
get_vlan_outcome(vs, es, d, key) ==
    IF key = None
    THEN Returned(Some({getJson(vs, es, v) : v \in VlansOf(vs, d)}))
    ELSE LET found == get_vlan_obj_from_db(vs, d, key[1])
         IN  IF Cardinality(found) > 1 THEN Raising("MultipleNodesReturned")
             ELSE IF found = {} THEN Returned(None)
             ELSE Returned(Some(getJson(vs, es, CHOOSE v \in found : TRUE)))

\* vlan.py:160-178: the dict member interface name -> tagging_mode, as a set of pairs
get_vlan_members_outcome(vs, es, d, key) ==
    LET found == get_vlan_obj_from_db(vs, d, key[1])
    IN  IF Cardinality(found) > 1 THEN Raising("MultipleNodesReturned")
        ELSE Returned(Some({<<e.ifname, e.tagging_mode>> :
                               e \in {f \in es : \E v \in found : f.vid = v.id}}))

\* portgroup_db.get_port_group_from_db: the PortGroup entity of the id, or None;
\* every PortGroup of the device when no id is given
get_port_group_from_db(pgs, d, key) ==
    IF key = None THEN Some(pgs[d])
    ELSE IF key[1] \in pgs[d] THEN key ELSE None

\* portgroup.py:86-106: with an id, db_output is None when the lookup finds nothing
\* and db_output.get(...) raises AttributeError
get_port_groups_outcome(pgs, d, key) ==
    LET port_group == get_port_group_from_db(pgs, d, key)
    IN  IF key # None /\ port_group = None THEN Raising("AttributeError")
        ELSE Returned(port_group)

\* portgroup.py:67-83: the properties of the member interfaces of the group; the
\* store model carries no port-group memberships, the value names the groups whose
\* members are listed
get_port_group_members_outcome(pgs, d, key) ==
    Returned(Some({key[1]} \cap pgs[d]))

\* stp_port_db.get_stp_port_members_from_db: the STP_PORT entity of the interface,
\* or None; every STP_PORT of the device when no if_name is given
get_stp_port_members_from_db(stps, d, key) ==
    IF key = None THEN Some(stps[d])
    ELSE IF key[1] \in stps[d] THEN key ELSE None

\* stp_port.py:130-150: a falsy lookup result (None, the empty list) falls off the
\* end of the function, which returns None
get_stp_port_members_outcome(stps, d, key) ==
    LET stp_port == get_stp_port_members_from_db(stps, d, key)
    IN  IF key = None /\ stps[d] = {} THEN Returned(None) ELSE Returned(stp_port)

ReadOutcome(name, d, key) ==
    CASE name = "get_vlan" -> get_vlan_outcome(vlans, medges, d, key)
      [] name = "get_vlan_members" -> get_vlan_members_outcome(vlans, medges, d, key)
      [] name = "get_port_groups" -> get_port_groups_outcome(port_groups, d, key)
      [] name = "get_port_group_members" ->
            get_port_group_members_outcome(port_groups, d, key)
      [] name = "get_stp_port_members" -> get_stp_port_members_outcome(stp_ports, d, key)

\* Variant: get_vlan refreshes from the device before it reads the store
ReadThroughCalls(name) == IF name = "get_vlan" THEN << "discover_vlan" >> ELSE <<>>

\* The discovery, fetch and mutation calls in the body of a read operation: none
TransportCalls(name) == <<>>

\* A read operation runs and returns or raises
Read(name, d, key) ==
    /\ pc = "idle"
    /\ op' = [name |-> name, dev |-> d, key |-> key]
    /\ trace' = [k \in 1..Len(TransportCalls(name)) |-> Ev(TransportCalls(name)[k], d)]
    /\ result' = ReadOutcome(name, d, key).ret
    /\ exc' = ReadOutcome(name, d, key).exc
    /\ store0' = StoreNow
    /\ pc' = "done"
    /\ UNCHANGED <<storeVars, queue, cur, raw, ipd, snap, idx, midx, pending, runs, ksnap,
                   last, repeated, threadVars, mapperVars>>

get_vlan(d, key) == Read("get_vlan", d, key)
get_vlan_members(d, key) == Read("get_vlan_members", d, key)
get_port_groups(d, key) == Read("get_port_groups", d, key)
get_port_group_members(d, key) == Read("get_port_group_members", d, key)
get_stp_port_members(d, key) == Read("get_stp_port_members", d, key)

\* The keys a caller may ask for
Optional(S) == {None} \cup {Some(x) : x \in S}
Named(S) == {Some(x) : x \in S}

-----------------------------------------------------------------------------
(* The discovery loop: for device in devices *)

FirstStep(kind) ==
    CASE kind = "vlan" -> "fetch" [] kind = "stp" -> "stp_fetch" [] OTHER -> "pg_fetch"

\* The loop takes the next device
DiscoverNextDevice ==
    /\ pc = "loop"
    /\ queue # <<>>
    /\ cur' = Head(queue)
    /\ queue' = Tail(queue)
    /\ trace' = Append(trace, Ev("device", Head(queue)))
    /\ store0' = StoreNow
    /\ runs' = runs + 1
    /\ raw' = NoReport
    /\ ipd' = <<>>
    /\ snap' = <<>>
    /\ ksnap' = {}
    /\ idx' = 0
    /\ midx' = 0
    /\ pc' = FirstStep(KindOf(op.name))
    /\ UNCHANGED <<result, threadVars, mapperVars>>
    /\ UNCHANGED <<storeVars, op, pending, exc, last, repeated>>

\* The loop is exhausted and discovery returns; an exception held by the calling
\* operation's try/except then leaves the operation
DiscoverReturns ==
    /\ pc = "loop"
    /\ queue = <<>>
    /\ exc' = pending
    /\ pc' = "done"
    /\ cur' = NoDev
    /\ raw' = NoReport
    /\ ipd' = <<>>
    /\ snap' = <<>>
    /\ ksnap' = {}
    /\ store0' = NoStore
    /\ UNCHANGED <<result, threadVars, mapperVars>>
    /\ UNCHANGED <<storeVars, op, queue, idx, midx, pending, trace, runs, last, repeated>>

\* An exception e leaves the discovery function, through its except clause (log and
\* re-raise) when it has one: the loop is abandoned and e reaches the caller,
\* replacing an exception held by an enclosing finally
DiscoverRaises(e, tr) ==
    /\ exc' = Some(e)
    /\ pc' = "done"
    /\ trace' = tr

\* The except clause of discover_vlan / discover_stp_port: _logger.error, raise
Logged(tr) == Append(tr, Ev("log", cur))

\* A device fetch raised
FetchError(tr) == Append(tr, Ev("fetch_error", cur))

\* The operation returns or raises to its caller
Return ==
    /\ pc = "done"
    /\ pc' = "idle"
    /\ op' = NoOp
    /\ queue' = <<>>
    /\ cur' = NoDev
    /\ raw' = NoReport
    /\ ipd' = <<>>
    /\ snap' = <<>>
    /\ ksnap' = {}
    /\ idx' = 0
    /\ midx' = 0
    /\ pending' = None
    /\ exc' = None
    /\ trace' = <<>>
    /\ store0' = NoStore
    /\ repeated' = FALSE
    /\ result' = None
    /\ UNCHANGED <<threadVars, mapperVars>>
    /\ UNCHANGED <<storeVars, runs, last>>

-----------------------------------------------------------------------------
(* VLAN discovery of one device: insert_vlan_in_db(device, _create_vlan_db_obj(ip)) *)

\* The position after member j of snapshot entry i has been handled
Advance(i, j) ==
    IF j < Len(snap[i].members)
    THEN /\ pc' = "member" /\ idx' = i /\ midx' = j + 1
    ELSE IF i < Len(snap)
         THEN /\ pc' = "upsert" /\ idx' = i + 1 /\ midx' = 0
         ELSE /\ pc' = "prune" /\ idx' = 0 /\ midx' = 0

\* History: the iteration ends with the store as it is in the next state. An
\* iteration that a store failure cuts short leaves no record: the next discovery
\* has no previous discovery to be compared with
RecordRun ==
    /\ last' = [dev |-> cur, raw |-> raw,
                vlans |-> VlansOf(vlans', cur), medges |-> EdgesOf(vlans', medges', cur)]
    /\ repeated' = (last.dev = cur /\ last.raw = raw)

\* get_vlan_details_from_device returns r
FetchVlanDetails(r) ==
    /\ pc = "fetch"
    /\ raw' = r
    /\ ipd' = <<>>
    /\ IF r.vlan_list = <<>>
       THEN /\ snap' = create_vlan_db_obj(r, <<>>)
            /\ pc' = "prune"
       ELSE /\ snap' = <<>>
            /\ pc' = "fetch_ip"
    /\ UNCHANGED <<result, threadVars, mapperVars>>
    /\ UNCHANGED <<storeVars, op, queue, cur, idx, midx, pending, exc, trace, store0,
                   runs, ksnap, last, repeated>>

\* get_vlan_details_from_device raises
FetchVlanDetailsFails(e) ==
    /\ pc = "fetch"
    /\ e \in ErrorsOf(op.name)
    /\ DiscoverRaises(Exc(e, "fetch"), Logged(FetchError(trace)))
    /\ UNCHANGED <<result, threadVars, mapperVars>>
    /\ UNCHANGED <<storeVars, op, queue, cur, raw, ipd, snap, idx, midx, pending, store0,
                   runs, ksnap, last, repeated>>

\* get_vlan_ip_details_from_device returns for the next VLAN_LIST entry; after the
\* last entry the snapshot is mapped
FetchIpDetails ==
    /\ pc = "fetch_ip"
    /\ LET k == Len(ipd) + 1
           got == Append(ipd, raw.ip[raw.vlan_list[k].name])
       IN  /\ ipd' = got
           /\ IF k = Len(raw.vlan_list)
              THEN /\ snap' = create_vlan_db_obj(raw, got)
                   /\ pc' = "upsert"
                   /\ idx' = 1
              ELSE /\ snap' = snap
                   /\ pc' = "fetch_ip"
                   /\ idx' = idx
    /\ UNCHANGED <<result, threadVars, mapperVars>>
    /\ UNCHANGED <<storeVars, op, queue, cur, raw, midx, pending, exc, trace, store0,
                   runs, ksnap, last, repeated>>

\* Variant: the failed IP fetch is logged and swallowed, and reconciliation goes on
\* with an empty snapshot
IpFailureSwallowed(e) ==
    /\ pc = "fetch_ip"
    /\ e \in ErrorsOf(op.name)
    /\ trace' = Logged(FetchError(trace))
    /\ snap' = <<>>
    /\ pc' = "prune"
    /\ UNCHANGED <<result, threadVars, mapperVars>>
    /\ UNCHANGED <<storeVars, op, queue, cur, raw, ipd, idx, midx, pending, exc, store0,
                   runs, ksnap, last, repeated>>

\* get_vlan_ip_details_from_device raises
FetchIpDetailsFails(e) ==
    /\ pc = "fetch_ip"
    /\ e \in ErrorsOf(op.name)
    /\ DiscoverRaises(Exc(e, "fetch"), Logged(FetchError(trace)))
    /\ raw' = NoReport
    /\ UNCHANGED <<result, threadVars, mapperVars>>
    /\ UNCHANGED <<storeVars, op, queue, cur, ipd, snap, idx, midx, pending, store0,
                   runs, ksnap, last, repeated>>

\* vlan_db.py:95-105 for snapshot entry idx
UpsertVlan ==
    /\ pc = "upsert"
    /\ UNCHANGED <<result, threadVars, mapperVars>>
    /\ UNCHANGED <<medges, stp_ports, port_groups, op, queue, cur, raw, ipd, snap,
                   pending, store0, runs, ksnap>>
    /\ LET vlan == snap[idx].vlan
           found == get_vlan_obj_from_db(vlans, cur, vlan.name)
       IN  IF Cardinality(found) > 1
           THEN \* get_or_none: MultipleNodesReturned
                /\ DiscoverRaises(Exc("MultipleNodesReturned", "insert"), Logged(trace))
                /\ UNCHANGED <<vlans, nid, idx, midx>>
                /\ RecordRun
           ELSE /\ IF found # {}
                   THEN /\ vlans' = UpdateExisting(vlans, CHOOSE v \in found : TRUE, vlan)
                        /\ nid' = nid
                   ELSE /\ vlans' = SaveNew(vlans, cur, vlan, nid[cur][vlan.name] + 1)
                        /\ nid' = [nid EXCEPT ![cur][vlan.name] = @ + 1]
                /\ Advance(idx, 0)
                /\ UNCHANGED <<exc, trace, last, repeated>>

\* vlan_db.py:106-116 for a membership entry whose interface resolves
ConnectVlanMember ==
    /\ pc = "member"
    /\ LET mem == snap[idx].members[midx]
           saved == get_vlan_obj_from_db(vlans, cur, snap[idx].vlan.name)
           intf == getInterfaceOfDeviceFromDB(cur, mem.ifname)
       IN  /\ saved # {}
           /\ intf # None
           /\ medges' = ConnectMember(medges, (CHOOSE v \in saved : TRUE).id, intf[1],
                                      mem.tagging_mode)
    /\ Advance(idx, midx)
    /\ UNCHANGED <<result, threadVars, mapperVars>>
    /\ UNCHANGED <<vlans, nid, stp_ports, port_groups, op, queue, cur, raw, ipd, snap,
                   pending, exc, trace, store0, runs, ksnap, last, repeated>>

\* vlan_db.py:107-115 for a membership entry whose interface does not resolve:
\* mem_rel is None and mem_rel.tagging_mode = ... raises AttributeError
MemberUnresolved ==
    /\ pc = "member"
    /\ LET mem == snap[idx].members[midx]
           saved == get_vlan_obj_from_db(vlans, cur, snap[idx].vlan.name)
           intf == getInterfaceOfDeviceFromDB(cur, mem.ifname)
       IN  saved = {} \/ intf = None
    /\ UNCHANGED <<result, threadVars, mapperVars>>
    /\ UNCHANGED <<storeVars, op, queue, cur, raw, ipd, snap, idx, midx, pending, store0,
                   runs, ksnap>>
    /\ DiscoverRaises(Exc("AttributeError", "insert"), Logged(trace))
    /\ RecordRun

\* The store writes of vlan_db.py:95-116 that may raise: the save of the VLAN node
\* (99, 102), its attachment to the device (100, 103), and the membership write
\* (108-116)
WriteCalls == {"save", "connect", "member"}

\* Variant: the writes of the failed call are rolled back with the device's nodes
AfterFailedWriteRolledBack(vs, d, vlan, w, k) == {n \in vs : n.dev # d}

\* The store after the write call w of the current snapshot entry has raised: a
\* failed call writes nothing, and a failed attachment leaves the node its save
\* wrote, which for a new node is a node no device owns
AfterFailedWrite(vs, d, vlan, w, k) ==
    LET found == get_vlan_obj_from_db(vs, d, vlan.name)
    IN  IF w # "connect" THEN vs
        ELSE IF found # {} THEN UpdateExisting(vs, CHOOSE v \in found : TRUE, vlan)
        ELSE vs \cup {[id |-> <<d, vlan.name, k>>, dev |-> NoDev, p |-> vlan]}

\* vlan_db.py:99-116: a store write raises; nothing is caught in insert_vlan_in_db,
\* so the rest of the snapshot and the pruning loop are skipped and the exception
\* passes through the except clause of discover_vlan (vlan.py:220-222)
StoreWriteFails(w) ==
    /\ \/ pc = "upsert" /\ w \in {"save", "connect"}
          /\ Cardinality(get_vlan_obj_from_db(vlans, cur, snap[idx].vlan.name)) <= 1
       \/ pc = "member" /\ w = "member"
    /\ LET vlan == snap[idx].vlan
           fresh == w = "connect" /\ get_vlan_obj_from_db(vlans, cur, vlan.name) = {}
       IN  /\ vlans' = AfterFailedWrite(vlans, cur, vlan, w, nid[cur][vlan.name] + 1)
           /\ nid' = IF fresh THEN [nid EXCEPT ![cur][vlan.name] = @ + 1] ELSE nid
    /\ UNCHANGED <<result, threadVars, mapperVars>>
    /\ UNCHANGED <<medges, stp_ports, port_groups, op, queue, cur, raw, ipd, snap, idx,
                   midx, pending, store0, runs, ksnap>>
    /\ DiscoverRaises(Exc("StoreError", "insert"), Logged(trace))
    /\ last' = NoLast
    /\ repeated' = FALSE

\* vlan_db.py:117-121: stale pruning, then insert_vlan_in_db returns to the loop
PruneStale ==
    /\ pc = "prune"
    /\ LET gone == StaleVlans(vlans, cur, snap)
       IN  /\ vlans' = DeleteVlans(vlans, gone)
           /\ medges' = DeleteEdges(medges, gone)
    /\ RecordRun
    /\ pc' = "loop"
    /\ UNCHANGED <<result, threadVars, mapperVars>>
    /\ UNCHANGED <<nid, stp_ports, port_groups, op, queue, cur, raw, ipd, snap, idx, midx,
                   pending, exc, trace, store0, runs, ksnap>>


-----------------------------------------------------------------------------
(* STP-port and port-group discovery of one device *)

\* stp_port_db.insert_device_stp_port_in_db / portgroup_db.insert_device_port_groups_in_db:
\* the reconciler of section 4.2 on natural keys: every snapshot key is upserted,
\* every stored key absent from the snapshot is pruned
ReconcileKeys(stored, snapshot) ==
    (stored \cup snapshot) \ {k \in stored : k \notin snapshot}

\* stp_port.py:26-57: get_stp_port_members_from_device returns the ports s
StpFetch(s) ==
    /\ pc = "stp_fetch"
    /\ ksnap' = s
    /\ pc' = "stp_insert"
    /\ UNCHANGED <<result, threadVars, mapperVars>>
    /\ UNCHANGED <<storeVars, op, queue, cur, raw, ipd, snap, idx, midx, pending, exc,
                   trace, store0, runs, last, repeated>>

\* stp_port.py:26-30: get_stp_port_members_from_device raises; the error is logged
\* and the empty dict is returned
StpFetchFails ==
    /\ pc = "stp_fetch"
    /\ ksnap' = {}
    /\ trace' = Logged(FetchError(trace))
    /\ pc' = "stp_insert"
    /\ UNCHANGED <<result, threadVars, mapperVars>>
    /\ UNCHANGED <<storeVars, op, queue, cur, raw, ipd, snap, idx, midx, pending, exc,
                   store0, runs, last, repeated>>

\* stp_port.py:75: insert_device_stp_port_in_db(device, snapshot)
StpInsert ==
    /\ pc = "stp_insert"
    /\ stp_ports' = [stp_ports EXCEPT ![cur] = ReconcileKeys(@, ksnap)]
    /\ pc' = "loop"
    /\ UNCHANGED <<result, threadVars, mapperVars>>
    /\ UNCHANGED <<vlans, medges, nid, port_groups, op, queue, cur, raw, ipd, snap, idx,
                   midx, pending, exc, trace, store0, runs, ksnap, last, repeated>>

\* portgroup.py:25-64: the port-groups s are fetched and mapped
PgFetch(s) ==
    /\ pc = "pg_fetch"
    /\ ksnap' = s
    /\ pc' = "pg_insert"
    /\ UNCHANGED <<result, threadVars, mapperVars>>
    /\ UNCHANGED <<storeVars, op, queue, cur, raw, ipd, snap, idx, midx, pending, exc,
                   trace, store0, runs, last, repeated>>

\* portgroup.py:33,114-116: get_port_group_from_device raises; nothing catches it
\* inside discover_port_groups
PgFetchFails(e) ==
    /\ pc = "pg_fetch"
    /\ e \in ErrorsOf(op.name)
    /\ DiscoverRaises(Exc(e, "fetch"), FetchError(trace))
    /\ UNCHANGED <<result, threadVars, mapperVars>>
    /\ UNCHANGED <<storeVars, op, queue, cur, raw, ipd, snap, idx, midx, pending, store0,
                   runs, ksnap, last, repeated>>

\* portgroup.py:114-116: insert_device_port_groups_in_db(device, snapshot)
PgInsert ==
    /\ pc = "pg_insert"
    /\ port_groups' = [port_groups EXCEPT ![cur] = ReconcileKeys(@, ksnap)]
    /\ pc' = "loop"
    /\ UNCHANGED <<result, threadVars, mapperVars>>
    /\ UNCHANGED <<vlans, medges, nid, stp_ports, op, queue, cur, raw, ipd, snap, idx,
                   midx, pending, exc, trace, store0, runs, ksnap, last, repeated>>

-----------------------------------------------------------------------------

Next ==
    \/ \E d \in Devices \cup {NoDev} : discover_vlan(d)
    \/ \E d \in Devices \cup {NoDev} : discover_stp_port(d)
    \/ \E d \in Devices \cup {NoDev} : discover_port_groups(d)
    \/ \E d \in Devices : del_vlan(d)
    \/ \E d \in Devices : config_vlan(d)
    \/ \E d \in Devices : add_vlan_mem(d)
    \/ \E d \in Devices : del_vlan_mem(d)
    \/ \E d \in Devices : set_port_group_speed(d)
    \/ \E d \in Devices : add_stp_port_members(d)
    \/ \E d \in Devices : delete_stp_port_member(d)
    \/ \E d \in Devices, key \in Optional(VlanNames) : get_vlan(d, key)
    \/ \E d \in Devices, key \in Named(VlanNames) : get_vlan_members(d, key)
    \/ \E d \in Devices, key \in Optional(PortGroupIds) : get_port_groups(d, key)
    \/ \E d \in Devices, key \in Named(PortGroupIds) : get_port_group_members(d, key)
    \/ \E d \in Devices, key \in Optional(StpIfNames) : get_stp_port_members(d, key)
    \/ MutationSucceeds
    \/ \E e \in TransportErrors : MutationFails(e)
    \/ DiscoverNextDevice
    \/ DiscoverReturns
    \/ \E r \in DeviceReports : FetchVlanDetails(r)
    \/ \E e \in TransportErrors : FetchVlanDetailsFails(e)
    \/ FetchIpDetails
    \/ \E e \in TransportErrors : FetchIpDetailsFails(e)
    \/ UpsertVlan
    \/ ConnectVlanMember
    \/ MemberUnresolved
    \/ PruneStale
    \/ \E s \in SUBSET StpIfNames : StpFetch(s)
    \/ StpFetchFails
    \/ StpInsert
    \/ \E s \in SUBSET PortGroupIds : PgFetch(s)
    \/ \E e \in TransportErrors : PgFetchFails(e)
    \/ PgInsert
    \/ Return

Spec == Init /\ [][Next]_vars

\* VLAN discovery on a store whose writes may raise
StoreFailNext ==
    \/ \E d \in Devices \cup {NoDev} : discover_vlan(d)
    \/ DiscoverNextDevice
    \/ DiscoverReturns
    \/ \E r \in DeviceReports : FetchVlanDetails(r)
    \/ \E e \in TransportErrors : FetchVlanDetailsFails(e)
    \/ FetchIpDetails
    \/ \E e \in TransportErrors : FetchIpDetailsFails(e)
    \/ UpsertVlan
    \/ ConnectVlanMember
    \/ MemberUnresolved
    \/ \E w \in WriteCalls : StoreWriteFails(w)
    \/ PruneStale
    \/ Return

StoreFailSpec == Init /\ [][StoreFailNext]_vars


-----------------------------------------------------------------------------
(* Concurrent reconciliations: threads that each run the reconciliation of    *)
(* discover_vlan(device), insert_vlan_in_db(device, _create_vlan_db_obj(ip)), *)
(* one store call at a time. Nothing in discover_vlan or insert_vlan_in_db   *)
(* takes a lock.                                                            *)

ConcDevice == DeviceOrder[1]

\* The device reports of the concurrent runs, one of them with a VLAN name listed twice
ConcReports ==
    { MkReport(l, 1, << Mem("Vlan10", "Ethernet0", "tagged") >>) :
        l \in { <<>>, << "Vlan10" >>, << "Vlan20" >>, << "Vlan10", "Vlan10" >> } }

\* What saving or connecting a node that another thread has deleted meanwhile may
\* do: the store ignores the write, or the call raises
GoneOutcomes == {"ignored", "raises"}

NodeIds(vs) == {n.id : n \in vs}

\* The thread's run ends, with exception e or normally
Finish(t, e) ==
    /\ th' = [th EXCEPT ![t].pc = "done", ![t].exc = e]
    /\ lastdone' = [t |-> t, names |-> SnapNames(th[t].snap), ok |-> e = None]

\* The position after member j of snapshot entry i has been handled
ThreadAdvance(t, i, j, found) ==
    /\ th' = [th EXCEPT
                ![t].found = found,
                ![t].pc = IF j < Len(th[t].snap[i].members) THEN "member"
                          ELSE IF i < Len(th[t].snap) THEN "lookup" ELSE "prune_list",
                ![t].idx = IF j < Len(th[t].snap[i].members) THEN i
                           ELSE IF i < Len(th[t].snap) THEN i + 1 ELSE 0,
                ![t].midx = IF j < Len(th[t].snap[i].members) THEN j + 1 ELSE 0]
    /\ UNCHANGED lastdone

\* vlan.py:216-217: the device's report r is fetched and mapped, and
\* insert_vlan_in_db is entered
T_Start(t, r) ==
    /\ th[t].pc \in {"idle", "done"}
    /\ calls < MaxCalls
    /\ calls' = calls + 1
    /\ LET sn == create_vlan_db_obj(r, [k \in 1..Len(r.vlan_list) |->
                                           r.ip[r.vlan_list[k].name]])
       IN  th' = [th EXCEPT ![t] = [pc |-> IF sn = <<>> THEN "prune_list" ELSE "lookup",
                                    dev |-> ConcDevice, snap |-> sn,
                                    idx |-> IF sn = <<>> THEN 0 ELSE 1, midx |-> 0,
                                    found |-> {}, exc |-> None]]
    /\ UNCHANGED <<engineVars, lastdone, mapperVars>>

\* vlan_db.py:96: v := get_vlan_obj_from_db(device.mgt_ip, vlan.name)
T_Lookup(t) ==
    /\ th[t].pc = "lookup"
    /\ LET found == get_vlan_obj_from_db(vlans, th[t].dev, th[t].snap[th[t].idx].vlan.name)
       IN  IF Cardinality(found) > 1
           THEN Finish(t, Some(Exc("MultipleNodesReturned", "insert")))
           ELSE /\ th' = [th EXCEPT ![t].found = found, ![t].pc = "save"]
                /\ UNCHANGED lastdone
    /\ UNCHANGED <<engineVars, calls, mapperVars>>

\* vlan_db.py:97-103: the node found is updated and saved, or the new node is saved
T_Save(t) ==
    /\ th[t].pc = "save"
    /\ LET vlan == th[t].snap[th[t].idx].vlan
           found == th[t].found
       IN  IF found = {}
           THEN /\ vlans' = SaveNew(vlans, th[t].dev, vlan, nid[th[t].dev][vlan.name] + 1)
                /\ nid' = [nid EXCEPT ![th[t].dev][vlan.name] = @ + 1]
           ELSE /\ (CHOOSE v \in found : TRUE).id \in NodeIds(vlans)
                /\ vlans' = UpdateExisting(vlans, CHOOSE v \in found : TRUE, vlan)
                /\ nid' = nid
    /\ th' = [th EXCEPT ![t].pc = "lookup2"]
    /\ UNCHANGED <<medges, stp_ports, port_groups, pc, op, queue, cur, raw, ipd, snap,
                   idx, midx, pending, exc, trace, store0, runs, ksnap, last, repeated,
                   result, calls, lastdone, mapperVars>>

\* vlan_db.py:98-100 when another thread has deleted the node found at line 96
T_SaveOnDeleted(t, o) ==
    /\ th[t].pc = "save"
    /\ th[t].found # {}
    /\ (CHOOSE v \in th[t].found : TRUE).id \notin NodeIds(vlans)
    /\ IF o = "raises"
       THEN Finish(t, Some(Exc("StoreError", "insert")))
       ELSE /\ th' = [th EXCEPT ![t].pc = "lookup2"]
            /\ UNCHANGED lastdone
    /\ UNCHANGED <<engineVars, calls, mapperVars>>

\* vlan_db.py:105: saved_vlan = get_vlan_obj_from_db(device.mgt_ip, vlan.name)
T_Lookup2(t) ==
    /\ th[t].pc = "lookup2"
    /\ LET saved == get_vlan_obj_from_db(vlans, th[t].dev, th[t].snap[th[t].idx].vlan.name)
       IN  IF Cardinality(saved) > 1
           THEN Finish(t, Some(Exc("MultipleNodesReturned", "insert")))
           ELSE ThreadAdvance(t, th[t].idx, 0, saved)
    /\ UNCHANGED <<engineVars, calls, mapperVars>>

\* vlan_db.py:106-116 for one membership entry: the relationship is connected, or
\* mem_rel is None and AttributeError is raised
T_Member(t) ==
    /\ th[t].pc = "member"
    /\ LET mem == th[t].snap[th[t].idx].members[th[t].midx]
           saved == th[t].found
           intf == getInterfaceOfDeviceFromDB(th[t].dev, mem.ifname)
       IN  IF saved = {} \/ intf = None
           THEN /\ Finish(t, Some(Exc("AttributeError", "insert")))
                /\ UNCHANGED medges
           ELSE /\ (CHOOSE v \in saved : TRUE).id \in NodeIds(vlans)
                /\ medges' = ConnectMember(medges, (CHOOSE v \in saved : TRUE).id, intf[1],
                                           mem.tagging_mode)
                /\ ThreadAdvance(t, th[t].idx, th[t].midx, saved)
    /\ UNCHANGED <<vlans, nid, stp_ports, port_groups, pc, op, queue, cur, raw, ipd, snap,
                   idx, midx, pending, exc, trace, store0, runs, ksnap, last, repeated,
                   result, calls, mapperVars>>

\* vlan_db.py:108,115-116 when another thread has deleted saved_vlan
T_MemberOnDeleted(t, o) ==
    /\ th[t].pc = "member"
    /\ th[t].found # {}
    /\ getInterfaceOfDeviceFromDB(th[t].dev,
                                  th[t].snap[th[t].idx].members[th[t].midx].ifname) # None
    /\ (CHOOSE v \in th[t].found : TRUE).id \notin NodeIds(vlans)
    /\ IF o = "raises"
       THEN Finish(t, Some(Exc("StoreError", "insert")))
       ELSE ThreadAdvance(t, th[t].idx, th[t].midx, th[t].found)
    /\ UNCHANGED <<engineVars, calls, mapperVars>>

\* vlan_db.py:119-120: the device's VLANs are listed and those not in the snapshot
\* are kept for deletion, by name
T_PruneList(t) ==
    /\ th[t].pc = "prune_list"
    /\ LET stale == {n.p.name : n \in StaleVlans(vlans, th[t].dev, th[t].snap)}
       IN  IF stale = {}
           THEN Finish(t, None)
           ELSE /\ th' = [th EXCEPT ![t].found = stale, ![t].pc = "delete"]
                /\ UNCHANGED lastdone
    /\ UNCHANGED <<engineVars, calls, mapperVars>>

\* vlan_db.py:121 with 8-22: del_vlan_from_db(device.mgt_ip, name) looks the name up
\* and deletes the node it finds; after the last one insert_vlan_in_db returns
T_Delete(t, name) ==
    /\ th[t].pc = "delete"
    /\ name \in th[t].found
    /\ LET target == get_vlan_obj_from_db(vlans, th[t].dev, name)
           left == th[t].found \ {name}
       IN  IF Cardinality(target) > 1
           THEN /\ Finish(t, Some(Exc("MultipleNodesReturned", "insert")))
                /\ UNCHANGED <<vlans, medges>>
           ELSE /\ vlans' = DeleteVlans(vlans, target)
                /\ medges' = DeleteEdges(medges, target)
                /\ th' = [th EXCEPT ![t].found = left,
                                     ![t].pc = IF left = {} THEN "done" ELSE "delete"]
                /\ lastdone' = IF left = {}
                               THEN [t |-> t, names |-> SnapNames(th[t].snap), ok |-> TRUE]
                               ELSE lastdone
    /\ UNCHANGED <<nid, stp_ports, port_groups, pc, op, queue, cur, raw, ipd, snap,
                   idx, midx, pending, exc, trace, store0, runs, ksnap, last, repeated,
                   result, calls, mapperVars>>

ConcNext ==
    \/ \E t \in Threads, r \in ConcReports : T_Start(t, r)
    \/ \E t \in Threads : T_Lookup(t)
    \/ \E t \in Threads : T_Save(t)
    \/ \E t \in Threads, o \in GoneOutcomes : T_SaveOnDeleted(t, o)
    \/ \E t \in Threads : T_Lookup2(t)
    \/ \E t \in Threads : T_Member(t)
    \/ \E t \in Threads, o \in GoneOutcomes : T_MemberOnDeleted(t, o)
    \/ \E t \in Threads : T_PruneList(t)
    \/ \E t \in Threads, name \in VlanNames : T_Delete(t, name)

ConcSpec == Init /\ [][ConcNext]_vars


-----------------------------------------------------------------------------
(* The domain mappers run on their own, on the replies a device may give *)

\* The decimal numeral of n < 100, written out
Numeral(n) ==
    IF n < 10 THEN << DigitChars[n + 1] >>
    ELSE << DigitChars[(n \div 10) + 1], DigitChars[(n % 10) + 1] >>
EthName(n) == << "Ethernet" >> \o Numeral(n)

\* The state of one port-group as a device reports it
PortGroupState(id, start, end) ==
    [id |-> id,
     speed |-> << "openconfig-if-ethernet", "SPEED_25GB" >>,
     valid_speeds |-> << << "openconfig-if-ethernet", "SPEED_25GB" >>,
                         << "openconfig-if-ethernet", "SPEED_10GB" >> >>,
     default_speed |-> << "openconfig-if-ethernet", "SPEED_25GB" >>,
     member_if_start |-> start,
     member_if_end |-> end]

PortGroupReplies ==
    { << PortGroupState("1", EthName(a), EthName(b)) >> : a, b \in 0..MaxEth }
        \cup { <<>>,
                << PortGroupState("1", EthName(0), EthName(3)),
                   PortGroupState("2", EthName(4), EthName(7)) >>,
                << PortGroupState("1", << "Eth", "1" >>, << "Eth", "4" >>) >> }

\* VLAN replies: table rows and member rows of names VLAN_LIST does not have, and
\* VLAN_LIST entries without a table row
MapperTableLists(v) ==
    { <<>>,
      << TableRow("Vlan10", v) >>,
      << TableRow("Vlan99", v) >>,
      << TableRow("Vlan20", v), TableRow("Vlan99", v) >>,
      << TableRow("Vlan10", v), TableRow("Vlan20", v) >> }
MapperMemberLists ==
    { <<>>,
      << Mem("Vlan10", "Ethernet0", "tagged"), Mem("Vlan99", "Ethernet0", "untagged"),
         Mem("Vlan10", UnknownIf, "untagged") >>,
      << Mem("Vlan20", "Ethernet0", "tagged") >> }
\* The IPv4 replies: one complete entry; an entry without ip before two complete
\* ones; only incomplete entries; no entry; an entry with prefix-length 0 before a
\* complete one
IpVersions == 1..5
VlanReplies ==
    { [vlan_list |-> [k \in 1..Len(l) |-> ListEntry(l[k])],
       table_list |-> t,
       member_list |-> m,
       ip |-> [n \in VlanNames |-> IpDetails(v)]] :
        l \in VlanLists, m \in MapperMemberLists,
        <<v, t>> \in {<<w, u>> : w \in IpVersions,
                                 u \in MapperTableLists(1) \cup MapperTableLists(2)} }

MapperInputs ==
    {[kind |-> "port_group", reply |-> r] : r \in PortGroupReplies}
        \cup {[kind |-> "vlan", reply |-> r] : r \in VlanReplies}

MapperInit ==
    /\ Quiescent
    /\ mapin \in MapperInputs
    /\ mapout = None

\* _create_port_group_graph_objects(device_ip) on the device's reply
MapPortGroups ==
    /\ mapin.kind = "port_group"
    /\ mapout = None
    /\ mapout' = Some(create_port_group_graph_objects(mapin.reply))
    /\ UNCHANGED <<engineVars, threadVars, mapin>>

\* _create_vlan_db_obj(device_ip) on the device's replies
MapVlans ==
    /\ mapin.kind = "vlan"
    /\ mapout = None
    /\ LET r == mapin.reply
           ips == [k \in 1..Len(r.vlan_list) |-> r.ip[r.vlan_list[k].name]]
       IN  mapout' = Some(Returned(Some(create_vlan_db_obj(r, ips))))
    /\ UNCHANGED <<engineVars, threadVars, mapin>>

MapperNext == MapPortGroups \/ MapVlans

MapperSpec == MapperInit /\ [][MapperNext]_vars


-----------------------------------------------------------------------------
(* Properties *)

\* insert_vlan_in_db has just returned normally for device cur
InsertReturned == pc = "loop" /\ cur # NoDev /\ KindOf(op.name) = "vlan"

Events(tr) == SeqToSet(tr)
CallsOf(tr) == SelectSeq(tr, LAMBDA x : x.ev \in {"mutate"} \cup Discoveries)
Attempted(tr) == {x.dev : x \in {y \in Events(tr) : y.ev = "device"}}
FetchFailed(tr) == \E x \in Events(tr) : x.ev = "fetch_error"
WasLogged(tr) == \E x \in Events(tr) : x.ev = "log"

\* C1: after insert_vlan_in_db returns normally, the VLAN names attached to the
\* device in the store are exactly the VLAN names of the snapshot.
C1_StoreMatchesSnapshot ==
    InsertReturned => NamesOf(vlans, cur) = SnapNames(snap)

\* C1 witness: a reconciliation that updated an existing VLAN in place, created
\* another one, and returned.
C1_Witness ==
    /\ InsertReturned
    /\ \E n \in VlansOf(store0.vlans, cur) : n.p.name \in SnapNames(snap)
    /\ \E k \in 1..Len(snap) : snap[k].vlan.name \notin NamesOf(store0.vlans, cur)

\* C2: a VLAN that was attached to the device before the reconciliation and whose
\* name is not in the new snapshot is gone when the reconciliation has returned
\* normally, and so is every membership relationship it had.
C2_StaleDeleted ==
    InsertReturned =>
        \A n \in VlansOf(store0.vlans, cur) :
            n.p.name \notin SnapNames(snap) =>
                /\ n.p.name \notin NamesOf(vlans, cur)
                /\ \A v \in vlans : v.id # n.id
                /\ \A e \in medges : e.vid # n.id

\* C2 witness: a stale VLAN that had a membership relationship was pruned.
C2_Witness ==
    /\ InsertReturned
    /\ \E n \in VlansOf(store0.vlans, cur) :
          /\ n.p.name \notin SnapNames(snap)
          /\ \E e \in store0.medges : e.vid = n.id

\* C3: when a VLAN discovery of a device ends and the previous VLAN discovery was of
\* the same device with the same device report, the device's VLAN nodes (their
\* identities and attributes) and membership relationships are those the previous
\* discovery left.
C3_Idempotent ==
    [][ ( /\ pc \in {"upsert", "member", "prune"}
          /\ pc' \in {"loop", "done"}
          /\ last.dev = cur
          /\ last.raw = raw )
        => ( /\ VlansOf(vlans', cur) = last.vlans
             /\ EdgesOf(vlans', medges', cur) = last.medges ) ]_vars

\* C3 witness: a second discovery with the same report has returned, with VLANs and
\* membership relationships in the store.
C3_Witness ==
    /\ InsertReturned
    /\ repeated
    /\ VlansOf(vlans, cur) # {}
    /\ EdgesOf(vlans, medges, cur) # {}


Done == pc = "done"
Raised == exc # None

\* The discovery the claim expects a configuration operation to call
ExpectedDiscovery(name) ==
    IF name = "set_port_group_speed" THEN "discover_port_groups" ELSE "discover_vlan"

\* C4: when del_vlan, config_vlan, add_vlan_mem, del_vlan_mem or
\* set_port_group_speed returns or raises, its calls were the device mutation and
\* then, exactly once, the discovery of the same device, whether or not the
\* mutation raised.
C4_MutateThenDiscoverOnce ==
    (Done /\ op.name \in VlanMutations \cup {"set_port_group_speed"}) =>
        /\ CallsOf(trace) = << Ev("mutate", op.dev), Ev(ExpectedDiscovery(op.name), op.dev) >>
        /\ Attempted(trace) = {op.dev}

\* C4 witness: set_port_group_speed ends after a mutation error its except clause
\* does not catch.
C4_Witness ==
    /\ Done
    /\ op.name = "set_port_group_speed"
    /\ pending = Some(Exc("Exception", "mutation"))

\* C5: when the device mutation of del_vlan, config_vlan, add_vlan_mem or
\* del_vlan_mem raised, the exception that reaches the caller is that mutation
\* exception, after discover_vlan was called, also when discover_vlan itself raised.
C5_MutationErrorReachesCaller ==
    (Done /\ op.name \in VlanMutations /\ pending # None) =>
        /\ exc = pending
        /\ \E k \in 1..Len(trace) : trace[k] = Ev("discover_vlan", op.dev)

\* C6: add_stp_port_members and delete_stp_port_member have called
\* discover_stp_port for the device when they return or raise.
C6_StpMutationRediscovers ==
    (Done /\ op.name \in StpMutations) =>
        \E k \in 1..Len(trace) : trace[k] = Ev("discover_stp_port", op.dev)

\* A membership entry of the snapshot whose interface has no Interface entity
Unresolved(mem) == mem.ifname \notin Interfaces

\* C7: an unresolved membership entry raises nothing out of insert_vlan_in_db; the
\* reconciliation returns with every resolvable membership entry of the snapshot
\* stored with its tagging_mode, no relationship for the unresolved ones, and the
\* store's VLAN names equal to the snapshot's.
C7_UnresolvedSkipped ==
    /\ (Done /\ Raised) => exc[1].type # "AttributeError"
    /\ InsertReturned =>
          /\ NamesOf(vlans, cur) = SnapNames(snap)
          /\ \A k \in 1..Len(snap) : \A j \in 1..Len(snap[k].members) :
                LET mem == snap[k].members[j]
                    vids == {n.id : n \in get_vlan_obj_from_db(vlans, cur, snap[k].vlan.name)}
                IN  IF Unresolved(mem)
                    THEN \A e \in medges : ~(e.vid \in vids /\ e.ifname = mem.ifname)
                    ELSE \E e \in medges : /\ e.vid \in vids
                                           /\ e.ifname = mem.ifname
                                           /\ e.tagging_mode = mem.tagging_mode

\* C8: while the VLAN table and the per-VLAN IP details of a device are fetched the
\* store is as it was when the device's discovery started; reconciliation runs on
\* the snapshot mapped from the complete fetches; and when a fetch raised, the
\* exception reaches the caller with the store unchanged.
C8_FetchBeforeWrite ==
    /\ pc \in {"fetch", "fetch_ip"} => StoreNow = store0
    /\ pc \in {"upsert", "member", "prune"} =>
          /\ Len(ipd) = Len(raw.vlan_list)
          /\ snap = create_vlan_db_obj(raw, ipd)
    /\ (Done /\ KindOf(op.name) = "vlan" /\ FetchFailed(trace)) =>
          /\ Raised
          /\ exc[1].origin = "fetch"
          /\ StoreNow = store0

\* C8 witness: the IP fetch of the second VLAN of a device raised, while the store
\* held VLANs of that device, and the operation has ended.
C8_Witness ==
    /\ Done
    /\ KindOf(op.name) = "vlan"
    /\ FetchFailed(trace)
    /\ Len(ipd) = 1
    /\ VlansOf(vlans, cur) # {}

\* C9: when fetching the STP port state of a device raised, discover_stp_port
\* raises to its caller and the device's STP port entities are those stored before.
C9_StpFetchFailureRaises ==
    /\ (pc = "loop" /\ cur # NoDev /\ KindOf(op.name) = "stp" /\ FetchFailed(trace)
            /\ trace[Len(trace)] = Ev("log", cur)) =>
          stp_ports[cur] = store0.stp[cur]
    /\ (Done /\ op.name = "discover_stp_port" /\ FetchFailed(trace)) => Raised

\* C10: when a bulk discovery (no device_ip) ends after the discovery of a device
\* failed, the failure was logged, an exception reaches the caller, and the
\* discovery of every known device was attempted.
C10_BulkContinues ==
    (Done /\ op.name \in Discoveries /\ op.dev = NoDev
          /\ (FetchFailed(trace) \/ Raised)) =>
        /\ WasLogged(trace)
        /\ Raised
        /\ Attempted(trace) = Devices

\* A VLAN discovery iteration for device cur is under way or has just ended
VlanIteration == cur # NoDev /\ KindOf(op.name) = "vlan"

\* The membership relationships of the VLAN nodes of device d, dangling ones included
EdgesAt(es, d) == {e \in es : e.vid[1] = d}

\* C13: a VLAN node that was attached to the device when the reconciliation started
\* and whose name is in the new snapshot is, at every point of the reconciliation
\* and after it, still in the store under the same identity and under the same
\* name, and every membership relationship it had is still there.
C13_UpdatedInPlace ==
    VlanIteration =>
        \A n \in VlansOf(store0.vlans, cur) :
            n.p.name \in SnapNames(snap) =>
                /\ \E v \in VlansOf(vlans, cur) : v.id = n.id /\ v.p.name = n.p.name
                /\ \A e \in store0.medges :
                      e.vid = n.id =>
                          \E f \in medges : f.vid = n.id /\ f.ifname = e.ifname

\* C13 witness: the reconciliation returned after changing the attributes of a
\* VLAN node that had a membership relationship.
C13_Witness ==
    /\ InsertReturned
    /\ \E n \in VlansOf(store0.vlans, cur) :
          /\ n.p.name \in SnapNames(snap)
          /\ \E e \in store0.medges : e.vid = n.id
          /\ \E v \in VlansOf(vlans, cur) : v.id = n.id /\ v.p # n.p

\* C14: after insert_vlan_in_db returns normally, every VLAN node of the device
\* carries exactly the scalar attributes (vlanid, name, ip_address, sag_ip_address,
\* autostate, mtu, admin_status, oper_status) of the snapshot entity of its name.
C14_AttributesEqualSnapshot ==
    InsertReturned =>
        \A n \in VlansOf(vlans, cur) :
            \E k \in 1..Len(snap) : snap[k].vlan = n.p

\* C15: during and after a VLAN discovery of a device, whether it completes or
\* fails partway, the VLAN nodes and membership relationships of every other device
\* and the STP-port and port-group entities of all devices are those the store held
\* when the discovery of the device started.
C15_OtherDevicesAndKindsUntouched ==
    VlanIteration =>
        /\ \A d \in Devices \ {cur} :
              /\ VlansOf(vlans, d) = VlansOf(store0.vlans, d)
              /\ EdgesAt(medges, d) = EdgesAt(store0.medges, d)
        /\ stp_ports = store0.stp
        /\ port_groups = store0.pg

\* C15 witness: a VLAN discovery failed partway, after writing to the store, while
\* another device had VLAN nodes with membership relationships.
C15_Witness ==
    /\ Done
    /\ VlanIteration
    /\ Raised
    /\ exc[1].origin = "insert"
    /\ VlansOf(vlans, cur) # VlansOf(store0.vlans, cur)
    /\ \E d \in Devices \ {cur} : EdgesOf(vlans, medges, d) # {}

\* C18: a VLAN discovery of a device that has no VLAN in the store, with the
\* scenario's report, leaves exactly one VLAN node for the device, Vlan10 with
\* vlanid 10, mtu 9100 and admin_status UP, and exactly one membership relationship,
\* from that node to Ethernet0 with tagging_mode tagged; a VLAN discovery whose
\* report lists no VLAN leaves the device with no VLAN node and no membership
\* relationship.
C18_EndToEnd ==
    /\ ( /\ InsertReturned
          /\ raw = ScenarioReport
          /\ VlansOf(store0.vlans, cur) = {}
          /\ EdgesAt(store0.medges, cur) = {} ) =>
            \E n \in vlans :
                /\ VlansOf(vlans, cur) = {n}
                /\ n.p.name = "Vlan10"
                /\ n.p.vlanid = Some(10)
                /\ n.p.mtu = Some(9100)
                /\ n.p.admin_status = Some("UP")
                /\ EdgesAt(medges, cur) =
                      {[vid |-> n.id, ifname |-> "Ethernet0", tagging_mode |-> "tagged"]}
    /\ (InsertReturned /\ raw.vlan_list = <<>>) =>
            /\ VlansOf(vlans, cur) = {}
            /\ EdgesAt(medges, cur) = {}

\* C18 witness: a discovery with an empty report has returned for a device whose
\* store held exactly the scenario's Vlan10 node and its tagged relationship to
\* Ethernet0.
C18_Witness ==
    /\ InsertReturned
    /\ raw.vlan_list = <<>>
    /\ \E n \in store0.vlans :
          /\ VlansOf(store0.vlans, cur) = {n}
          /\ n.p.name = "Vlan10"
          /\ n.p.vlanid = Some(10)
          /\ n.p.mtu = Some(9100)
          /\ n.p.admin_status = Some("UP")
          /\ EdgesAt(store0.medges, cur) =
                {[vid |-> n.id, ifname |-> "Ethernet0", tagging_mode |-> "tagged"]}

\* C16: when get_vlan, get_vlan_members, get_port_groups, get_port_group_members or
\* get_stp_port_members returns or raises, it has issued no discovery, fetch or
\* mutation call and the store's entities and relationships are those of its start.
C16_ReadsOnlyRead ==
    (Done /\ op.name \in Reads) =>
        /\ trace = <<>>
        /\ StoreNow = store0

\* C16 witness: get_vlan has returned a VLAN with a member interface.
C16_Witness ==
    /\ Done
    /\ op.name = "get_vlan"
    /\ op.key # None
    /\ result # None
    /\ result[1].members # {}

\* The named key a read operation was asked for is not in the store
KeyAbsent ==
    /\ op.key # None
    /\ CASE op.name = "get_vlan" -> op.key[1] \notin NamesOf(vlans, op.dev)
         [] op.name = "get_port_groups" -> op.key[1] \notin port_groups[op.dev]
         [] op.name = "get_stp_port_members" -> op.key[1] \notin stp_ports[op.dev]

\* C17: get_vlan, get_port_groups and get_stp_port_members asked for a named key
\* that is absent from the store return None or raise NotFoundError, nothing else,
\* and leave the store unchanged.
C17_AbsentKeyNotFound ==
    (Done /\ op.name \in {"get_vlan", "get_port_groups", "get_stp_port_members"}
          /\ KeyAbsent) =>
        /\ \/ exc = None /\ result = None
           \/ exc # None /\ exc[1].type = "NotFoundError"
        /\ StoreNow = store0

\* The mapper of the kind has returned normally
Mapped(kind) ==
    /\ mapin # None
    /\ mapin.kind = kind
    /\ mapout # None
    /\ mapout[1].exc = None

\* C19: for every port-group whose state reports member-if-start Ethernet<a> and
\* member-if-end Ethernet<b> with a <= b, the membership list the mapper yields for
\* it is Ethernet<a>, Ethernet<a+1>, ..., Ethernet<b>: b-a+1 names in ascending
\* numeric order, both ends included.
C19_RangeExpansion ==
    Mapped("port_group") =>
        LET states == mapin.reply
            out == mapout[1].ret[1]
        IN  \A k \in 1..Len(states) : \A a, b \in 0..MaxEth :
                ( /\ states[k].member_if_start = EthName(a)
                  /\ states[k].member_if_end = EthName(b)
                  /\ a <= b ) =>
                    \E j \in 1..Len(out) :
                        /\ out[j].pg.port_group_id = states[k].id
                        /\ out[j].mem_infcs = [i \in 1..(b - a + 1) |-> EthName(a + i - 1)]

\* C19 witness: a port-group reported with Ethernet0..Ethernet3 is mapped to the
\* four names Ethernet0, Ethernet1, Ethernet2, Ethernet3.
C19_Witness ==
    /\ Mapped("port_group")
    /\ mapin.reply = << PortGroupState("1", << "Ethernet", "0" >>, << "Ethernet", "3" >>) >>
    /\ mapout[1].ret[1][1].mem_infcs =
          << << "Ethernet", "0" >>, << "Ethernet", "1" >>,
             << "Ethernet", "2" >>, << "Ethernet", "3" >> >>

\* The VLAN_TABLE_LIST rows of a name
RowsOf(reply, name) == SelectSeq(reply.table_list, LAMBDA row : row.name = name)

\* C20: the snapshot mapped from a VLAN reply has exactly one entity per VLAN_LIST
\* entry, of that entry's name, and no other; an entity whose name has a
\* VLAN_TABLE_LIST row carries that row's mtu, admin_status and oper_status, an
\* entity without one has them absent; table rows and member rows of other names
\* leave no trace; and each entity's membership list is the VLAN_MEMBER_LIST rows
\* of its name, in order.
C20_JoinCorrect ==
    Mapped("vlan") =>
        LET reply == mapin.reply
            out == mapout[1].ret[1]
        IN  /\ Len(out) = Len(reply.vlan_list)
            /\ \A k \in 1..Len(out) :
                  LET v == out[k].vlan
                      rows == RowsOf(reply, v.name)
                  IN  /\ v.name = reply.vlan_list[k].name
                      /\ v.vlanid = reply.vlan_list[k].vlanid
                      /\ IF rows = <<>>
                         THEN v.mtu = None /\ v.admin_status = None /\ v.oper_status = None
                         ELSE /\ v.mtu = rows[Len(rows)].mtu
                              /\ v.admin_status = rows[Len(rows)].admin_status
                              /\ v.oper_status = rows[Len(rows)].oper_status
                      /\ \A j \in 1..Len(out[k].members) : out[k].members[j].name = v.name
                      /\ Len(out[k].members) =
                            Cardinality({j \in 1..Len(reply.member_list) :
                                             reply.member_list[j].name = v.name})
                      /\ \A j \in 1..Len(out[k].members) :
                            \E i \in 1..Len(reply.member_list) :
                                reply.member_list[i] = out[k].members[j]

\* C20 witness: a reply with Vlan10 and Vlan20 in VLAN_LIST, table rows for Vlan20
\* and Vlan99 only, and member rows for Vlan10 and Vlan99 has been mapped.
C20_Witness ==
    /\ Mapped("vlan")
    /\ Len(mapin.reply.vlan_list) = 2
    /\ RowsOf(mapin.reply, "Vlan10") = <<>>
    /\ RowsOf(mapin.reply, "Vlan20") # <<>>
    /\ RowsOf(mapin.reply, "Vlan99") # <<>>
    /\ Len(mapin.reply.member_list) = 3
    /\ Len(mapout[1].ret[1][1].members) = 2

\* The thread is between the first store call of its reconciliation and its end
Reconciling(t) ==
    th[t].pc \in {"lookup", "save", "lookup2", "member", "prune_list", "delete"}

\* C11: two reconciliations of the same device's VLANs are never under way at the
\* same time, and whenever no reconciliation is under way and the one that ended
\* last ended normally, the device's VLAN names in the store are those of that
\* run's snapshot.
C11_Serialized ==
    /\ \A t, u \in Threads :
          (t # u /\ th[t].dev = th[u].dev) => ~(Reconciling(t) /\ Reconciling(u))
    /\ ((\A t \in Threads : ~Reconciling(t)) /\ lastdone.ok) =>
          NamesOf(vlans, ConcDevice) = lastdone.names

\* C12: in every state a device has at most one VLAN node per VLAN name.
C12_OnePerName ==
    \A d \in Devices : \A n \in VlanNames :
        Cardinality(get_vlan_obj_from_db(vlans, d, n)) <= 1

\* C21: every VLAN entity the mapper produces has an autostate, and when neither
\* the VLAN_LIST entry nor any VLAN_TABLE_LIST row of the VLAN's name carries an
\* autostate, the entity's autostate is the default token (disable), also for a
\* VLAN that has a matching VLAN_TABLE_LIST row.
C21_AutostateDefaulted ==
    Mapped("vlan") =>
        LET reply == mapin.reply
            out == mapout[1].ret[1]
        IN  \A k \in 1..Len(out) :
                LET v == out[k].vlan
                    rows == RowsOf(reply, v.name)
                IN  /\ v.autostate # None
                    /\ ( /\ reply.vlan_list[k].autostate = None
                         /\ \A j \in 1..Len(rows) : rows[j].autostate = None ) =>
                            v.autostate = Some(AutoStateDefault)

\* An address entry has both its ip and its prefix-length
Present(a) == a.ip # None /\ a.pfx # None

\* C22: the ip_address of every mapped VLAN is "<ip>/<prefix-length>" of the first
\* entry, in list order, of the VLAN's IPv4 address list that has both ip and
\* prefix-length; incomplete entries before it are skipped, later complete entries
\* are ignored, and when no entry is complete or the list is empty ip_address is
\* absent and the mapper returns normally.
C22_FirstCompleteAddress ==
    (mapin # None /\ mapin.kind = "vlan" /\ mapout # None) =>
        /\ mapout[1].exc = None
        /\ LET reply == mapin.reply
               out == mapout[1].ret[1]
           IN  \A k \in 1..Len(out) :
                   LET v == out[k].vlan
                       addrs == reply.ip[v.name].addresses
                       complete == {i \in 1..Len(addrs) : Present(addrs[i])}
                   IN  IF complete = {}
                       THEN v.ip_address = None
                       ELSE LET i == CHOOSE m \in complete : \A n \in complete : m <= n
                            IN  v.ip_address = Some(<< addrs[i].ip[1], "/", addrs[i].pfx[1] >>)

\* A store write of insert_vlan_in_db has raised and discover_vlan has ended
WriteFailed ==
    /\ pc = "done"
    /\ op.name = "discover_vlan"
    /\ cur # NoDev
    /\ exc # None
    /\ exc[1] = Exc("StoreError", "insert")

\* C23: when a store write of insert_vlan_in_db has failed at the k-th VLAN of the
\* snapshot, every VLAN processed before it is in the store with the attributes
\* the call wrote and with a membership relationship, of the reported tagging
\* mode, for each of its member rows; no node and no relationship the device had
\* when the call started has been removed; and the error has reached the caller
\* of discover_vlan, the rest of the device list not being attempted.
C23_NoRollbackNoPrune ==
    WriteFailed =>
        /\ \A j \in 1..(idx - 1) :
              \E n \in VlansOf(vlans, cur) :
                  /\ n.p.name = snap[j].vlan.name
                  /\ n.p.vlanid = snap[j].vlan.vlanid
                  /\ n.p.mtu = snap[j].vlan.mtu
                  /\ n.p.admin_status = snap[j].vlan.admin_status
                  /\ n.p.oper_status = snap[j].vlan.oper_status
                  /\ \A m \in 1..Len(snap[j].members) :
                        [vid |-> n.id, ifname |-> snap[j].members[m].ifname,
                         tagging_mode |-> snap[j].members[m].tagging_mode] \in medges
        /\ \A n \in VlansOf(store0.vlans, cur) : \E v \in VlansOf(vlans, cur) : v.id = n.id
        /\ \A e \in EdgesOf(store0.vlans, store0.medges, cur) :
              \E f \in medges : f.vid = e.vid /\ f.ifname = e.ifname
        /\ WasLogged(trace)
        /\ Attempted(trace) \cap SeqToSet(queue) = {}

\* C23 witness: a write failed at the second VLAN of a snapshot whose first VLAN
\* the same call had created, with a membership relationship, and both are in the
\* store.
C23_Witness ==
    /\ WriteFailed
    /\ idx = 2
    /\ snap[1].vlan.name \notin NamesOf(store0.vlans, cur)
    /\ snap[1].members # <<>>
    /\ \E n \in VlansOf(vlans, cur) :
          /\ n.p.name = snap[1].vlan.name
          /\ \E e \in medges : e.vid = n.id

\* The interfaces the snapshot lists as members of the VLAN of the name
ListedMembers(sn, name) ==
    UNION { {sn[k].members[m].ifname : m \in 1..Len(sn[k].members)} :
                k \in {i \in 1..Len(sn) : sn[i].vlan.name = name} }

\* C24: during and after a VLAN reconciliation of a device, every VLAN node the
\* device had at the start that is still in the store has a membership
\* relationship to every interface it had one to at the start, whether or not the
\* snapshot lists that interface for the VLAN: a relationship goes only with its
\* VLAN node.
C24_MembershipNeverShrinks ==
    VlanIteration =>
        \A n \in VlansOf(store0.vlans, cur) :
            (\E v \in VlansOf(vlans, cur) : v.id = n.id) =>
                \A e \in store0.medges :
                    e.vid = n.id => \E f \in medges : f.vid = e.vid /\ f.ifname = e.ifname

\* C24 witness: insert_vlan_in_db has returned with a stale VLAN deleted and with a
\* surviving VLAN that still has its relationship to an interface the snapshot no
\* longer lists for it.
C24_Witness ==
    /\ InsertReturned
    /\ VlansOf(store0.vlans, cur) \ VlansOf(vlans, cur) # {}
    /\ \E n \in VlansOf(store0.vlans, cur) :
          /\ n.p.name \in SnapNames(snap)
          /\ \E v \in VlansOf(vlans, cur) : v.id = n.id
          /\ \E e \in medges :
                /\ e \in store0.medges
                /\ e.vid = n.id
                /\ e.ifname \notin ListedMembers(snap, n.p.name)

=============================================================================
